---- MODULE Spec2Model ----
(***************************************************************************)
(* A model of the 2D signed-distance-field SLAM of src/core: the grid map  *)
(* (grid_map.py: GridMap) and the tracker / session loop (slam.py: SLAM).  *)
(*                                                                         *)
(* Number formats.  The program computes in floating point; the model      *)
(* computes in exact integer and rational arithmetic:                      *)
(*   - a length is an integer number of length units (the unit of the map  *)
(*     configuration's width, height and resolution);                      *)
(*   - a Euclidean norm is rounded down to the unit (ISqrt);               *)
(*   - a yaw is a number of quarter turns, so cos and sin are -1, 0 or 1;  *)
(*   - a bearing is an angle code in -4 .. 4 over 45-degree sectors: the   *)
(*     even code 2k is exactly k*45 degrees, the odd code 2k+1 is the open *)
(*     interval between k*45 and (k+1)*45 degrees.  Angular metadata       *)
(*     (min_angle, max_angle, inc_angle) are multiples of 45 degrees, so   *)
(*     every comparison and every ray index the code computes is exact;    *)
(*   - a cell's distance is an exact rational <<num, den>>, den > 0;       *)
(*   - a pose matrix of the tracker holds its entries in units of          *)
(*     1 / Scale; the Jacobians, H, g and the twist are exact rationals.   *)
(***************************************************************************)
EXTENDS Integers, Sequences, FiniteSets, TLC

VARIABLES
    cfg,        \* GridMap: _width, _height, _res (the map configuration)
    sdf_map,    \* GridMap._sdf_map: cell -> rational distance
    freq_map,   \* GridMap._freq_map: cell -> observation count
    sensor,     \* the scan metadata: min/max/inc angle, min/max range, rays
    hist,       \* observer: cell -> the residuals the cell was updated with
    nfuse,      \* observer: number of FuseSdf calls made
    last,       \* observer: what the last FuseSdf call did
    rt,         \* the cell / world conversions' probe
    slam,       \* SLAM: _last_pose, _est_poses and Run's t, scan data and pc
    trk         \* SLAM.Track's frame: its arguments, locals and position

vars == <<cfg, sdf_map, freq_map, sensor, hist, nfuse, last, rt, slam, trk>>

----------------------------------------------------------------------------
(* Arithmetic helpers *)

Abs(x) == IF x < 0 THEN -x ELSE x

\* Integer division truncating toward zero (numpy's astype(int), Python int()).
TruncDiv(a, b) ==
    IF (a >= 0) = (b > 0) THEN Abs(a) \div Abs(b) ELSE -(Abs(a) \div Abs(b))

\* ceil(a / b) for a >= 0, b > 0 (np.ceil)
CeilDiv(a, b) == (a + b - 1) \div b

RECURSIVE Gcd(_, _)
Gcd(a, b) == IF b = 0 THEN a ELSE Gcd(b, a % b)

\* The rational n/d in lowest terms with a positive denominator.
Rat(n, d) ==
    LET g == Gcd(Abs(n), Abs(d))
        s == IF d < 0 THEN -1 ELSE 1
    IN  <<(s * n) \div g, (s * d) \div g>>

RECURSIVE ISqrtFrom(_, _)
ISqrtFrom(n, r) == IF (r + 1) * (r + 1) > n THEN r ELSE ISqrtFrom(n, r + 1)

\* np.linalg.norm of an integer vector, rounded down to the length unit.
ISqrt(n) == ISqrtFrom(n, 0)

RECURSIVE SumSeq(_)
SumSeq(s) == IF s = <<>> THEN 0 ELSE Head(s) + SumSeq(Tail(s))

----------------------------------------------------------------------------
(* GridMap.__init__ : the derived geometry of the map *)

\* Size of the map in cells (grid_map.py 25-26).
SizeX(c) == CeilDiv(c.width, c.res)
SizeY(c) == CeilDiv(c.height, c.res)

\* World coordinates of the map's corners (grid_map.py 28-31); width and
\* height are even, so the corners are whole length units.
MiniX(c) == -(c.width \div 2)
MiniY(c) == -(c.height \div 2)
MaxiX(c) == c.width \div 2
MaxiY(c) == c.height \div 2

\* The grid's upper-left origin in world coordinates (grid_map.py 33-34).
GridUlCoord(c) == <<MiniX(c), MaxiY(c)>>

\* Threshold of front and back truncation (grid_map.py 42).
Truncation(c) == 5 * c.res

\* The cells <<row, col>> of the two grids (grid_map.py 37-39).
Cells(c) == (0 .. SizeY(c) - 1) \X (0 .. SizeX(c) - 1)

Zero == <<0, 1>>

----------------------------------------------------------------------------
(* Rigid transforms of grid_map.py *)

\* cos and sin of a yaw given in quarter turns.
Cos(k) == CASE k % 4 = 0 -> 1 [] k % 4 = 1 -> 0 [] k % 4 = 2 -> -1 [] OTHER -> 0
Sin(k) == CASE k % 4 = 0 -> 0 [] k % 4 = 1 -> 1 [] k % 4 = 2 -> 0 [] OTHER -> -1

\* The variant of _GetSE2FromPose that stores the translation in the last
\* column, where a homogeneous transform of column vectors keeps it.
GetSE2FromPoseColumn(pose) ==
    << <<Cos(pose[3]), -Sin(pose[3]), pose[1]>>,
       <<Sin(pose[3]),  Cos(pose[3]), pose[2]>>,
       <<0, 0, 1>> >>

\* GridMap._GetSE2FromPose (grid_map.py 145-158): the rotation block, and the
\* translation written to mat[2, 0] and mat[2, 1], the bottom row.
GetSE2FromPose(pose) ==
    << <<Cos(pose[3]), -Sin(pose[3]), 0>>,
       <<Sin(pose[3]),  Cos(pose[3]), 0>>,
       <<pose[1], pose[2], 1>> >>

Det3(m) ==
      m[1][1] * (m[2][2] * m[3][3] - m[2][3] * m[3][2])
    - m[1][2] * (m[2][1] * m[3][3] - m[2][3] * m[3][1])
    + m[1][3] * (m[2][1] * m[3][2] - m[2][2] * m[3][1])

\* The adjugate (transposed cofactor matrix) of a 3x3 matrix.
Adj3(m) ==
    << << m[2][2] * m[3][3] - m[2][3] * m[3][2],
          m[1][3] * m[3][2] - m[1][2] * m[3][3],
          m[1][2] * m[2][3] - m[1][3] * m[2][2] >>,
       << m[2][3] * m[3][1] - m[2][1] * m[3][3],
          m[1][1] * m[3][3] - m[1][3] * m[3][1],
          m[1][3] * m[2][1] - m[1][1] * m[2][3] >>,
       << m[2][1] * m[3][2] - m[2][2] * m[3][1],
          m[1][2] * m[3][1] - m[1][1] * m[3][2],
          m[1][1] * m[2][2] - m[1][2] * m[2][1] >> >>

\* np.linalg.inv of a transform whose determinant is 1 (a rotation by
\* quarter turns plus a translation): the adjugate over the determinant.
InvSE2(m) ==
    LET a == Adj3(m)
        d == Det3(m)
    IN  << <<TruncDiv(a[1][1], d), TruncDiv(a[1][2], d), TruncDiv(a[1][3], d)>>,
           <<TruncDiv(a[2][1], d), TruncDiv(a[2][2], d), TruncDiv(a[2][3], d)>>,
           <<TruncDiv(a[3][1], d), TruncDiv(a[3][2], d), TruncDiv(a[3][3], d)>> >>

----------------------------------------------------------------------------
(* GridMap.FuseSdf, cell by cell *)

\* grid_map.py 75-84: the world coordinate of cell <<row, col>>:
\* (col, -row) * res + grid_ul_coord.
WorldPt(c, cell) ==
    << cell[2] * c.res + GridUlCoord(c)[1],
       -cell[1] * c.res + GridUlCoord(c)[2] >>

\* grid_map.py 86-92: a world point in the robot frame,
\* T_c_w[:2,:2] . w + T_c_w[:2,2]
GridLocalPt(T_c_w, w) ==
    << T_c_w[1][1] * w[1] + T_c_w[1][2] * w[2] + T_c_w[1][3],
       T_c_w[2][1] * w[1] + T_c_w[2][2] * w[2] + T_c_w[2][3] >>

\* grid_map.py 93-94: norm(grid_local_pts - trans)
GridLocalDist(p, pose) ==
    ISqrt((p[1] - pose[1]) * (p[1] - pose[1]) + (p[2] - pose[2]) * (p[2] - pose[2]))

\* np.arctan of the tangent num/den (den > 0), as an angle code: the
\* tangent is compared with -1, 0 and 1.
ArctanCode(num, den) ==
    CASE num < -den -> -3
      [] num = -den -> -2
      [] num < 0    -> -1
      [] num = 0    -> 0
      [] num < den  -> 1
      [] num = den  -> 2
      [] OTHER      -> 3

\* grid_map.py 96-100: the tangent y/x when x /= 0, else the number pi/2 or
\* -pi/2 (about 1.57 and -1.57: tangents above 1 and below -1), and its arctan.
GridLocalAngle(p) ==
    IF p[1] /= 0
    THEN ArctanCode(IF p[1] < 0 THEN -p[2] ELSE p[2], Abs(p[1]))
    ELSE IF p[2] > 0 THEN 3 ELSE -3

\* grid_map.py 112-113: ((angle - min_angle) / inc_angle).astype(np.int16)
ScanPtsIdx(s, angle) == TruncDiv(angle - s.min_angle, s.inc_angle)

\* grid_map.py 114-119: the test of the view frustum.
GridValid(s, p, dist, angle) ==
    /\ p[1] > 0
    /\ dist <= s.max_range
    /\ dist >= s.min_range
    /\ angle >= s.min_angle
    /\ angle <= s.max_angle

\* grid_map.py 86-119 for every cell, given T_c_w: its robot-frame point,
\* range, bearing, ray index and frustum test.
GridObs(c, s, pose, T_c_w) ==
    [cell \in Cells(c) |->
        LET p     == GridLocalPt(T_c_w, WorldPt(c, cell))
            dist  == GridLocalDist(p, pose)
            angle == GridLocalAngle(p)
        IN  [pt |-> p, dist |-> dist, angle |-> angle,
             idx |-> ScanPtsIdx(s, angle),
             valid |-> GridValid(s, p, dist, angle)]]

\* grid_map.py 124: scan[i] for a numpy index i: a negative index counts from
\* the end, and an index outside -len .. len-1 raises IndexError.
IndexInBounds(scan, i) == -Len(scan) <= i /\ i < Len(scan)
ScanAt(scan, i) == IF i >= 0 THEN scan[i + 1] ELSE scan[Len(scan) + i + 1]

\* grid_map.py 123-125: depth_val - grid_local_dist for a cell of the frustum.
DepthDiff(scan, o) == ScanAt(scan, o.idx) - o.dist

\* The truncation test without its front bound, depth_diff < truncation.
DepthDiffValidBackOnly(c, diff) == diff > -Truncation(c)

\* grid_map.py 127-128: the truncation band.
DepthDiffValid(c, diff) == diff > -Truncation(c) /\ diff < Truncation(c)

\* grid_map.py 129: whether FuseSdf hands the cell to _UpdateSdfMap.
ValidIdx(c, scan, o) == o.valid /\ DepthDiffValid(c, DepthDiff(scan, o))

\* The running mean with the old distance weighted by new_freq, not freq.
RunningMeanNewFreq(d, f, diff) == Rat(d[1] * (f + 1) + diff * d[2], d[2] * (f + 1))

\* grid_map.py 136-138: (sdf * freq + depth_diff) / (freq + 1), exactly.
RunningMean(d, f, diff) == Rat(d[1] * f + diff * d[2], d[2] * (f + 1))

\* GridMap._UpdateSdfMap (grid_map.py 135-140) on the cells idxs.
UpdateSdfMap(idxs, diff) ==
    /\ sdf_map' = [cell \in DOMAIN sdf_map |->
                     IF cell \in idxs
                     THEN RunningMean(sdf_map[cell], freq_map[cell], diff[cell])
                     ELSE sdf_map[cell]]
    /\ freq_map' = [cell \in DOMAIN freq_map |->
                     IF cell \in idxs THEN freq_map[cell] + 1 ELSE freq_map[cell]]

----------------------------------------------------------------------------
(* Inputs of the model *)

\* Number of FuseSdf calls a behaviour makes.
MaxFuse == 2

\* Map configurations (grid_map.py 17-21): width, height, resolution.
\* 5 columns (x = -5, -3, -1, 1, 3) by 4 rows (y = 4, 2, 0, -2).
FuseConfigs == {[width |-> 10, height |-> 8, res |-> 2]}

\* Scan metadata (slam.py 71-75) and the number of rays of a scan.  Angles
\* are angle codes: -4 is -90 degrees, 2 is 45 degrees.  A field of view of
\* -90 .. 90 degrees in steps of 45 has 5 rays, one of -45 .. 45 has 3.
Sensors ==
    {[min_angle |-> a[1], max_angle |-> a[2], inc_angle |-> a[3],
      min_range |-> 1, max_range |-> 9, rays |-> n] :
        a \in {<<-4, 4, 2>>, <<-2, 2, 2>>}, n \in {2, 5}}

\* The scans of n rays: one reading on the first half of the rays and one on
\* the rest; 30 is a far reading, beyond every cell and the truncation band.
Scans(n) ==
    {[i \in 1 .. n |-> IF 2 * i <= n + 1 THEN r[1] ELSE r[2]] :
        r \in {<<2, 2>>, <<5, 5>>, <<2, 5>>, <<5, 30>>}}

\* Poses (x, y, yaw): yaw in quarter turns.
Poses == {<<0, 0, 0>>, <<0, 0, 1>>, <<4, 0, 0>>, <<-2, 2, 3>>, <<2, -4, 2>>}

----------------------------------------------------------------------------
(* The map under any sequence of FuseSdf calls *)

NoCall == [called |-> FALSE, err |-> FALSE, pose |-> <<0, 0, 0>>, scan |-> <<>>,
           read |-> {}, sdf0 |-> <<>>, freq0 |-> <<>>]

\* GridMap.__init__ (grid_map.py 11-46): both grids zero.
InitMap(c) ==
    /\ cfg = c
    /\ sdf_map = [cell \in Cells(c) |-> Zero]
    /\ freq_map = [cell \in Cells(c) |-> 0]
    /\ hist = [cell \in Cells(c) |-> <<>>]
    /\ nfuse = 0
    /\ last = NoCall

InitFuse ==
    /\ \E c \in FuseConfigs : InitMap(c)
    /\ sensor \in Sensors
    /\ rt = <<>>
    /\ slam = <<>>
    /\ trk = <<>>

\* GridMap.FuseSdf (grid_map.py 71-133).  The scan lookup of line 124 raises
\* IndexError when a frustum cell's ray index is outside the scan: the call
\* ends there, before _UpdateSdfMap, and the exception reaches the caller.
\* last records the call: its inputs, the ray indexes it read, and the grids
\* it found; hist records the residual of every update.
FuseSdf(scan, pose) ==
    \E T_c_w \in {InvSE2(GetSE2FromPose(pose))} :
      LET obs  == GridObs(cfg, sensor, pose, T_c_w)
          read == {obs[cell].idx : cell \in {x \in Cells(cfg) : obs[x].valid}}
          call == [called |-> TRUE, err |-> FALSE, pose |-> pose, scan |-> scan,
                   read |-> read, sdf0 |-> sdf_map, freq0 |-> freq_map]
      IN  IF \E i \in read : ~IndexInBounds(scan, i)
          THEN /\ last' = [call EXCEPT !.err = TRUE]
               /\ UNCHANGED <<sdf_map, freq_map, hist>>
          ELSE LET idxs == {cell \in Cells(cfg) : ValidIdx(cfg, scan, obs[cell])}
                   diff == [cell \in idxs |-> DepthDiff(scan, obs[cell])]
               IN  /\ UpdateSdfMap(idxs, diff)
                   /\ hist' = [cell \in DOMAIN hist |->
                                 IF cell \in idxs THEN Append(hist[cell], diff[cell])
                                 ELSE hist[cell]]
                   /\ last' = call

Fuse ==
    /\ nfuse < MaxFuse
    /\ ~last.err
    /\ \E scan \in Scans(sensor.rays), pose \in Poses : FuseSdf(scan, pose)
    /\ nfuse' = nfuse + 1
    /\ UNCHANGED <<cfg, sensor, rt, slam, trk>>

NextFuse == Fuse

SpecFuse == InitFuse /\ [][NextFuse]_vars

----------------------------------------------------------------------------
(* The cell / world conversions *)

\* GridMap._FromMeterToCell (grid_map.py 183-192) on one world point: the
\* cell coordinates (cell_x, cell_y), used as [cell_y, cell_x] = [row, col]
\* (grid_map.py 62-64).
FromMeterToCell(c, w) ==
    << TruncDiv(w[1] - MiniX(c), c.res), TruncDiv(w[2] - MiniY(c), c.res) >>

\* Map configurations for the conversions: even widths and heights, and
\* resolutions that do and do not divide them.
CellConfigs ==
    {[width |-> w, height |-> h, res |-> r] : w \in {4, 6, 8}, h \in {4, 6}, r \in {1, 2, 3}}

InitCell ==
    /\ \E c \in CellConfigs : InitMap(c)
    /\ sensor = [rays |-> 0]
    /\ rt = [at |-> "none"]
    /\ slam = <<>>
    /\ trk = <<>>

\* A cell's world coordinate, as FuseSdf computes it (grid_map.py 75-84).
CellToWorld ==
    /\ rt.at \in {"none", "cell"}
    /\ \E cell \in Cells(cfg) : rt' = [at |-> "world", cell |-> cell, w |-> WorldPt(cfg, cell)]
    /\ UNCHANGED <<cfg, sdf_map, freq_map, sensor, hist, nfuse, last, slam, trk>>

\* The world coordinate back to a cell: [row, col] = [cell_y, cell_x].
WorldToCell ==
    /\ rt.at = "world"
    /\ LET xy == FromMeterToCell(cfg, rt.w)
       IN  rt' = [at |-> "cell", cell |-> rt.cell, w |-> rt.w, back |-> <<xy[2], xy[1]>>]
    /\ UNCHANGED <<cfg, sdf_map, freq_map, sensor, hist, nfuse, last, slam, trk>>

NextCell == CellToWorld \/ WorldToCell

SpecCell == InitCell /\ [][NextCell]_vars

----------------------------------------------------------------------------
(* SLAM: constants and the numerical core of one Track iteration *)

\* Class constants of SLAM (slam.py 28-33); the three thresholds are exact
\* rationals <<numerator, denominator>>.
kDeltaTime == 1
kOptMaxIters == 10
kEpsOfYaw == <<1, 1000>>
kEpsOfTrans == <<1, 1000>>
kHuberThr == 20
kOptStopThr == <<3, 1000>>

\* Pose matrices are float32 (slam.py 60, 89); their entries are kept in
\* units of 1 / Scale, products truncated to that unit.
Scale == 2

\* np.identity(3) (slam.py 60)
Identity3 == << <<Scale, 0, 0>>, <<0, Scale, 0>>, <<0, 0, Scale>> >>

RatAdd(a, b) == Rat(a[1] * b[2] + b[1] * a[2], a[2] * b[2])
RatSub(a, b) == Rat(a[1] * b[2] - b[1] * a[2], a[2] * b[2])
RatMul(a, b) == Rat(a[1] * b[1], a[2] * b[2])

RECURSIVE RatSum(_)
RatSum(s) == IF s = <<>> THEN Zero ELSE RatAdd(Head(s), RatSum(Tail(s)))

Lcm(a, b) == (a \div Gcd(a, b)) * b

RECURSIVE LcmDen(_)
LcmDen(s) == IF s = <<>> THEN 1 ELSE Lcm(Head(s)[2], LcmDen(Tail(s)))

RECURSIVE GcdNum(_)
GcdNum(s) == IF s = <<>> THEN 0 ELSE Gcd(Abs(Head(s)), GcdNum(Tail(s)))

\* utils.GetScanWorldCoordsFromSE2 (called at slam.py 96): the world
\* coordinates pose . (x, y, 1) of a local scan point, in units of 1 / Scale.
GetScanWorldCoordsFromSE2(pt, pose) ==
    << pose[1][1] * pt[1] + pose[1][2] * pt[2] + pose[1][3],
       pose[2][1] * pt[1] + pose[2][2] * pt[2] + pose[2][3] >>

\* GridMap.FromMeterToCellNoRound (called at slam.py 97) followed by the
\* int() of the row and column (slam.py 130, 138-139): the cell <<row, col>>
\* of a world point, (point - lower corner) / resolution cut to an integer.
FromMeterToCellNoRound(c, w) ==
    << TruncDiv(w[2] - MiniY(c) * Scale, c.res * Scale),
       TruncDiv(w[1] - MiniX(c) * Scale, c.res * Scale) >>

\* The 3x3 neighbourhood of a cell.
Neighbourhood(cell) ==
    {<<cell[1] + dr, cell[2] + dc>> : dr \in -1 .. 1, dc \in -1 .. 1}

\* GridMap.HasValidGradient (called at slam.py 118): the neighbourhood is
\* inside the grid and every cell of it has been observed.
HasValidGradient(c, freq, cell) ==
    \A n \in Neighbourhood(cell) : n \in Cells(c) /\ freq[n] > 0

\* GridMap.CalcSdfGradient (called at slam.py 121): central differences of
\* the distance grid over 2 * resolution, <<dD/dx, dD/dy>>.
CalcSdfGradient(c, sdf, cell) ==
    LET dx == RatSub(sdf[<<cell[1], cell[2] + 1>>], sdf[<<cell[1], cell[2] - 1>>])
        dy == RatSub(sdf[<<cell[1] + 1, cell[2]>>], sdf[<<cell[1] - 1, cell[2]>>])
    IN  << Rat(dx[1], dx[2] * 2 * c.res), Rat(dy[1], dy[2] * 2 * c.res) >>

\* The Jacobian J = J_d_x . J_x_xi of one scan point (slam.py 121-128):
\* <<dD/dx, dD/dy, -dD/dx * y_w + dD/dy * x_w>>.
Jacobian(c, sdf, cell, w) ==
    LET G == CalcSdfGradient(c, sdf, cell)
    IN  << G[1], G[2],
           RatSub(RatMul(G[2], Rat(w[1], Scale)), RatMul(G[1], Rat(w[2], Scale))) >>

\* The weight of a cell (slam.py 130-131).
Weight(freq) == IF freq >= kHuberThr THEN <<1, 1>> ELSE Rat(freq, kHuberThr)

\* One scan point's share of the sums (slam.py 108-136): whether it is
\* counted, its Jacobian, weight and distance value.
PointTerm(c, sdf, freq, pt, valid, pose) ==
    LET w    == GetScanWorldCoordsFromSE2(pt, pose)
        cell == FromMeterToCellNoRound(c, w)
        used == valid /\ HasValidGradient(c, freq, cell)
    IN  IF used
        THEN [used |-> TRUE, J |-> Jacobian(c, sdf, cell, w),
              wt |-> Weight(freq[cell]), sdf_val |-> sdf[cell]]
        ELSE [used |-> FALSE, J |-> <<Zero, Zero, Zero>>, wt |-> Zero,
              sdf_val |-> Zero]

\* The sums of one iteration (slam.py 99-139): opt_num, H, g and err_sum.
Linearize(c, sdf, freq, scan, valid_idxs, pose) ==
    LET n == Len(scan)
        T == [i \in 1 .. n |->
                PointTerm(c, sdf, freq, scan[i], valid_idxs[i], pose)]
        used == {i \in 1 .. n : T[i].used}
    IN  [opt_num |-> Cardinality(used),
         H |-> [j \in 1 .. 3 |-> [k \in 1 .. 3 |->
                  RatSum([i \in 1 .. n |->
                      RatMul(T[i].wt, RatMul(T[i].J[j], T[i].J[k]))])]],
         g |-> [j \in 1 .. 3 |->
                  RatSum([i \in 1 .. n |->
                      RatMul(T[i].wt, RatMul(T[i].J[j], T[i].sdf_val))])],
         err_sum |-> RatSum([i \in 1 .. n |->
                      RatMul(T[i].sdf_val, T[i].sdf_val)])]

\* H and g over one common denominator, as integers with no common factor;
\* -inv(H) . g is the same for H, g and for any common multiple of them.
Integral(lin) ==
    LET es == << lin.H[1][1], lin.H[1][2], lin.H[1][3],
                 lin.H[2][1], lin.H[2][2], lin.H[2][3],
                 lin.H[3][1], lin.H[3][2], lin.H[3][3],
                 lin.g[1], lin.g[2], lin.g[3] >>
        q  == LcmDen(es)
        ns == [i \in 1 .. 12 |-> es[i][1] * (q \div es[i][2])]
        gg == GcdNum(ns)
        k  == IF gg = 0 THEN 1 ELSE gg
    IN  [H |-> << <<ns[1] \div k, ns[2] \div k, ns[3] \div k>>,
                  <<ns[4] \div k, ns[5] \div k, ns[6] \div k>>,
                  <<ns[7] \div k, ns[8] \div k, ns[9] \div k>> >>,
         g |-> <<ns[10] \div k, ns[11] \div k, ns[12] \div k>>]

ZeroTwist == [num |-> <<0, 0, 0>>, den |-> 1]

\* A row of H is zero: the LU factorisation meets an exactly zero pivot
\* whatever the rounding of the other rows.
HasZeroRow(H) == \E j \in 1 .. 3 : H[j] = <<0, 0, 0>>

\* np.linalg.inv(H) raises LinAlgError (slam.py 148-149) exactly when the
\* LU factorisation in double precision meets a zero pivot.  For a singular
\* H with a zero row it always does; for any other singular H the last
\* pivot is a rounding residue, zero or not as the library build rounds.
InvRaises(H, lapack) ==
    Det3(H) = 0 /\ (HasZeroRow(H) \/ lapack.detects)

\* xi of one iteration (slam.py 147-151) as num / den, den > 0:
\* -inv(H) . g, zeros after LinAlgError, and for a singular H that passed
\* inv the product of the returned matrix with g.
SolveTwist(m, lapack) ==
    LET d == Det3(m.H)
        A == Adj3(m.H)
        s == IF d < 0 THEN 1 ELSE -1
    IN  IF d # 0
        THEN [num |-> [j \in 1 .. 3 |->
                 s * (A[j][1] * m.g[1] + A[j][2] * m.g[2] + A[j][3] * m.g[3])],
              den |-> Abs(d)]
        ELSE IF InvRaises(m.H, lapack) \/ m.g = <<0, 0, 0>>
             THEN ZeroTwist
             ELSE [num |-> lapack.residue, den |-> 1]

\* |n / d| < eps for d > 0
AbsLess(n, d, eps) == Abs(n) < CeilDiv(d * eps[1], eps[2])

\* np.linalg.norm(<<n1, n2>> / d) < eps for d > 0
NormLess(n1, n2, d, eps) ==
    /\ AbsLess(n1, d, eps)
    /\ AbsLess(n2, d, eps)
    /\ n1 * n1 + n2 * n2 < CeilDiv(d * d * eps[1] * eps[1], eps[2] * eps[2])

\* The stop test of slam.py 154-155.
Converged(xi, lin) ==
    \/ /\ AbsLess(xi.num[3], xi.den, kEpsOfYaw)
       /\ NormLess(xi.num[1], xi.num[2], xi.den, kEpsOfTrans)
    \/ lin.err_sum[1] * kOptStopThr[2]
         < kOptStopThr[1] * lin.err_sum[2] * lin.opt_num

\* utils.ExpFromSe2 (called at slam.py 157): the first-order pose increment
\* of a twist, its entries cut to units of 1 / Scale.
ExpFromSe2(xi) ==
    LET dx == TruncDiv(xi.num[1] * Scale, xi.den)
        dy == TruncDiv(xi.num[2] * Scale, xi.den)
        th == TruncDiv(xi.num[3] * Scale, xi.den)
    IN  << <<Scale, -th, dx>>, <<th, Scale, dy>>, <<0, 0, Scale>> >>

\* np.dot of two pose matrices (slam.py 157).
Dot(a, b) ==
    [i \in 1 .. 3 |-> [j \in 1 .. 3 |->
        TruncDiv(a[i][1] * b[1][j] + a[i][2] * b[2][j] + a[i][3] * b[3][j],
                 Scale)]]

----------------------------------------------------------------------------
(* SLAM.Track *)

NoFrame == [pc |-> "none"]

\* The loop test with the cap itself let through.
LoopGuardPastCap(it) == it <= kOptMaxIters

\* The loop test of slam.py 94.
LoopGuard(it) == it < kOptMaxIters

\* Track's entry (slam.py 87-94).  Beyond the arguments and the locals xi,
\* it and last_pose, the frame records what the call did: bodies entered,
\* pose updates applied, the poses held in turn (trail), the grids at
\* entry, the pose at the start of the latest body, whether
\* that body solved for a twist, found H singular, caught LinAlgError, and
\* how the loop ended.
TrackEntry(valid_idxs, scan) ==
    [pc |-> IF LoopGuard(0) THEN "loop" ELSE "ret",
     valid_idxs |-> valid_idxs, scan |-> scan,
     xi |-> ZeroTwist, it |-> 0, last_pose |-> slam._last_pose,
     prior |-> slam._last_pose, trail |-> <<slam._last_pose>>,
     bodies |-> 0, updates |-> 0,
     at_start |-> slam._last_pose, solved |-> FALSE, singular |-> FALSE,
     raised |-> FALSE, exit |-> IF LoopGuard(0) THEN "none" ELSE "cap",
     sdf0 |-> sdf_map, freq0 |-> freq_map]

\* A loop body that goes on to the solve whatever opt_num is.
NoPointsNever(lin) == FALSE

\* The test of slam.py 142.
NoPoints(lin) == lin.opt_num = 0

\* The pose updated before the stop test is looked at.
PoseAfterUpdateFirst(xi, lin, pose) == Dot(ExpFromSe2(xi), pose)

\* The pose after the stop test (slam.py 154-157): kept at a break, else
\* multiplied from the left by the increment of xi.
PoseAfter(xi, lin, pose) ==
    IF Converged(xi, lin) THEN pose ELSE Dot(ExpFromSe2(xi), pose)

\* One pass through the loop body and the loop test that follows it
\* (slam.py 94-158): a break, or the update and the test of it against
\* kOptMaxIters, which ends the loop at the cap.
TrackIteration ==
    /\ trk.pc = "loop"
    /\ LoopGuard(trk.it)
    /\ \E lin \in {Linearize(cfg, sdf_map, freq_map, trk.scan,
                             trk.valid_idxs, trk.last_pose)} :
         LET body == [trk EXCEPT !.bodies = @ + 1, !.at_start = trk.last_pose,
                                 !.solved = FALSE, !.singular = FALSE,
                                 !.raised = FALSE]
         IN  IF NoPoints(lin)
             THEN trk' = [body EXCEPT !.pc = "ret", !.exit = "no points"]
             ELSE \E m \in {Integral(lin)} :
                  \E xi \in {SolveTwist(m, slam.lapack)} :
                    LET solve == [body EXCEPT !.xi = xi, !.solved = TRUE,
                                      !.singular = (Det3(m.H) = 0),
                                      !.raised = InvRaises(m.H, slam.lapack),
                                      !.last_pose =
                                          PoseAfter(xi, lin, trk.last_pose)]
                    IN  IF Converged(xi, lin)
                        THEN trk' = [solve EXCEPT !.pc = "ret",
                                                  !.exit = "converged"]
                        ELSE trk' = [solve EXCEPT
                                        !.it = @ + 1, !.updates = @ + 1,
                                        !.trail = Append(@, solve.last_pose),
                                        !.pc = IF LoopGuard(trk.it + 1)
                                               THEN "loop" ELSE "ret",
                                        !.exit = IF LoopGuard(trk.it + 1)
                                                 THEN "none" ELSE "cap"]
    /\ UNCHANGED <<cfg, sdf_map, freq_map, sensor, hist, nfuse, last, rt, slam>>

----------------------------------------------------------------------------
(* Track called, and called again from the pose it returned *)

MaxCalls == 2

TrackConfig == [width |-> 8, height |-> 8, res |-> 1]

\* Distance grids of the tracking runs.  The rows below the middle hold a
\* field rising with the row; the rows above hold a profile over the columns.
RowField(r) == Rat(r - 2, 1)
Profiles ==
    [ramp   |-> [c \in 0 .. 7 |-> Rat(c - 4, 1)],
     step   |-> [c \in 0 .. 7 |-> IF c <= 4 THEN Rat(-1, 1) ELSE Rat(1, 1)],
     faint  |-> [c \in 0 .. 7 |-> IF c <= 4 THEN Rat(-1, 20) ELSE Rat(1, 20)],
     far    |-> [c \in 0 .. 7 |-> Rat(3 * (c - 4), 1)]]

SdfOf(p) ==
    [cell \in Cells(TrackConfig) |->
        IF cell[1] <= 3 THEN RowField(cell[1]) ELSE Profiles[p][cell[2]]]

\* Confidence grids: nothing observed, everything observed often, the
\* columns from 2 on observed a few times.
FreqOf(f) ==
    [cell \in Cells(TrackConfig) |->
        CASE f = "none" -> 0
          [] f = "all"  -> 20
          [] OTHER      -> IF cell[2] >= 2 THEN 5 ELSE 0]

TrackMaps ==
    {<<"ramp", "none">>, <<"ramp", "all">>, <<"step", "all">>,
     <<"faint", "all">>, <<"far", "part">>, <<"step", "part">>}

\* Local scan points (metres) with their range validity (slam.py 77-85).
TrackScans ==
    {[pts |-> << <<1, 1>>, <<-1, -2>>, <<1, 2>> >>, valid |-> <<TRUE, TRUE, TRUE>>],
     [pts |-> << <<1, 1>>, <<-1, -2>>, <<1, 2>> >>, valid |-> <<TRUE, TRUE, FALSE>>],
     [pts |-> << <<1, 1>>, <<-1, -3>>, <<1, 2>> >>, valid |-> <<TRUE, TRUE, FALSE>>]}

Priors ==
    {Identity3,
     << <<Scale, 0, 1>>, <<0, Scale, 1>>, <<0, 0, Scale>> >>,
     << <<0, -Scale, 0>>, <<Scale, 0, 0>>, <<0, 0, Scale>> >>}

\* The linear algebra library of the build: whether its LU factorisation
\* ends on an exactly zero pivot for a singular H without a zero row, and
\* the twist that results when it does not.
Lapacks ==
    {[detects |-> d, residue |-> r] :
        d \in BOOLEAN, r \in {<<1, -1, 0>>, <<-40, 25, 3>>}}

InitTrack ==
    /\ cfg = TrackConfig
    /\ \E m \in TrackMaps : sdf_map = SdfOf(m[1]) /\ freq_map = FreqOf(m[2])
    /\ hist = <<>>
    /\ nfuse = 0
    /\ last = NoCall
    /\ sensor = [rays |-> 0]
    /\ rt = <<>>
    /\ \E s \in TrackScans, p \in Priors, l \in Lapacks :
         slam = [pc |-> "idle", _last_pose |-> p, _est_poses |-> <<>>,
                 scan |-> s, lapack |-> l, results |-> <<>>]
    /\ trk = NoFrame

\* A call of Track with the scan of the run (slam.py 87-92).
TrackCall ==
    /\ slam.pc = "idle"
    /\ Len(slam.results) < MaxCalls
    /\ trk' = TrackEntry(slam.scan.valid, slam.scan.pts)
    /\ slam' = [slam EXCEPT !.pc = "tracking"]
    /\ UNCHANGED <<cfg, sdf_map, freq_map, sensor, hist, nfuse, last, rt>>

\* Track returns last_pose (slam.py 159); the caller keeps it as the prior
\* of the next call (slam.py 185).
TrackReturn ==
    /\ slam.pc = "tracking"
    /\ trk.pc = "ret"
    /\ trk' = [trk EXCEPT !.pc = "done"]
    /\ slam' = [slam EXCEPT !.pc = "idle",
                            !._last_pose = trk.last_pose,
                            !.results = Append(@, [prior |-> trk.prior,
                                                   ret |-> trk.last_pose,
                                                   exit |-> trk.exit,
                                                   updates |-> trk.updates])]
    /\ UNCHANGED <<cfg, sdf_map, freq_map, sensor, hist, nfuse, last, rt>>

NextTrack == TrackCall \/ TrackIteration \/ TrackReturn
SpecTrack == InitTrack /\ [][NextTrack]_vars

----------------------------------------------------------------------------
(* SLAM.Run *)

\* utils.GetSE2FromPose (called at slam.py 163): the pose matrix of
\* (x, y, yaw), yaw in quarter turns, in units of 1 / Scale.
PoseMat(pose) ==
    << <<Scale * Cos(pose[3]), -Scale * Sin(pose[3]), Scale * pose[1]>>,
       <<Scale * Sin(pose[3]),  Scale * Cos(pose[3]), Scale * pose[2]>>,
       <<0, 0, Scale>> >>

\* SLAM._ProcessScanToLocalCoords (slam.py 77-85): the validity of every
\* reading and its local point range * (cos, sin) of the ray's angle; the
\* rays of the sensor lie on quarter turns.
ProcessScanToLocalCoords(s, scan) ==
    [valid |-> [i \in 1 .. Len(scan) |->
                  scan[i] > s.min_range /\ scan[i] < s.max_range],
     pts   |-> [i \in 1 .. Len(scan) |->
                  LET k == (s.min_angle + (i - 1) * s.inc_angle) \div 4
                  IN  <<scan[i] * Cos(k), scan[i] * Sin(k)>>]]

\* A world point in the frame of a pose matrix, inverse(pose) . w, in
\* length units.
SensorFrame(P, w) ==
    LET dx  == w[1] * Scale - P[1][3]
        dy  == w[2] * Scale - P[2][3]
        det == P[1][1] * P[2][2] - P[1][2] * P[2][1]
    IN  << TruncDiv(P[2][2] * dx - P[1][2] * dy, det),
           TruncDiv(P[1][1] * dy - P[2][1] * dx, det) >>

\* The cells of GridMap.FuseSdf as Run calls it, with the pose as a matrix
\* (slam.py 166-168, 188-190): sensor-frame point, range, bearing, ray
\* index and frustum test of every cell.
GridObsSE2(c, s, P) ==
    [cell \in Cells(c) |->
        LET p     == SensorFrame(P, WorldPt(c, cell))
            dist  == ISqrt(p[1] * p[1] + p[2] * p[2])
            angle == GridLocalAngle(p)
        IN  [pt |-> p, dist |-> dist, angle |-> angle,
             idx |-> ScanPtsIdx(s, angle),
             valid |-> GridValid(s, p, dist, angle)]]

\* GridMap.FuseSdf as Run calls it: the truncation band and the running
\* mean on the cells of the frustum.
FuseSdfSE2(scan, P) ==
    LET obs  == GridObsSE2(cfg, sensor, P)
        idxs == {cell \in Cells(cfg) : ValidIdx(cfg, scan, obs[cell])}
        diff == [cell \in idxs |-> DepthDiff(scan, obs[cell])]
    IN  /\ UpdateSdfMap(idxs, diff)
        /\ nfuse' = nfuse + 1

\* The frame after the tracked one.
FusedFrameAdvanced(t) == t + kDeltaTime

\* The frame whose scan Run fuses after tracking frame t: scan_data, read
\* at slam.py 177 before t is advanced at line 186.
FusedFrame(t) == t

\* Run's loop test (slam.py 173).
RunGuard(t, n) == t < n - kDeltaTime

\* slam.py 162-172: the first frame is fused at the pose of the data set,
\* and t starts at kDeltaTime.
RunStart ==
    /\ slam.pc = "start"
    /\ FuseSdfSE2(slam.scans[1], PoseMat(slam.pose0))
    /\ slam' = [slam EXCEPT !.pc = "loop", !.t = kDeltaTime,
                   !.log = Append(@, [op |-> "fuse", frame |-> 0,
                                      pose |-> PoseMat(slam.pose0),
                                      sdf |-> sdf_map', freq |-> freq_map'])]
    /\ UNCHANGED <<cfg, sensor, hist, last, rt, trk>>

\* slam.py 173-181: the scan of frame t is read and Track is called.
RunTrack ==
    /\ slam.pc = "loop"
    /\ RunGuard(slam.t, Len(slam.scans))
    /\ \E l \in {ProcessScanToLocalCoords(sensor, slam.scans[slam.t + 1])} :
         trk' = TrackEntry(l.valid, l.pts)
    /\ slam' = [slam EXCEPT !.pc = "tracking"]
    /\ UNCHANGED <<cfg, sdf_map, freq_map, sensor, hist, nfuse, last, rt>>

\* slam.py 181-190: Track's pose is appended to the estimates and kept as
\* _last_pose, t advances, and the scan is fused at that pose.
RunFuse ==
    /\ slam.pc = "tracking"
    /\ trk.pc = "ret"
    /\ FuseSdfSE2(slam.scans[FusedFrame(slam.t) + 1], trk.last_pose)
    /\ slam' = [slam EXCEPT !.pc = "loop",
                   !._est_poses = Append(@, trk.last_pose),
                   !._last_pose = trk.last_pose,
                   !.t = @ + kDeltaTime,
                   !.log = Append(Append(@,
                      [op |-> "track", frame |-> slam.t, pose |-> trk.last_pose,
                       prior |-> trk.prior, sdf |-> trk.sdf0,
                       freq |-> trk.freq0]),
                      [op |-> "fuse", frame |-> FusedFrame(slam.t),
                       pose |-> trk.last_pose,
                       sdf |-> sdf_map', freq |-> freq_map'])]
    /\ trk' = [trk EXCEPT !.pc = "done"]
    /\ UNCHANGED <<cfg, sensor, hist, last, rt>>

\* The loop test fails (slam.py 173): Run ends.
RunEnd ==
    /\ slam.pc = "loop"
    /\ ~RunGuard(slam.t, Len(slam.scans))
    /\ slam' = [slam EXCEPT !.pc = "end"]
    /\ UNCHANGED <<cfg, sdf_map, freq_map, sensor, hist, nfuse, last, rt, trk>>

NumFrames == 4

RunSensor == [min_angle |-> -4, max_angle |-> 4, inc_angle |-> 4,
              min_range |-> 1, max_range |-> 9, rays |-> 3]

RunScans == {<<2, 3, 2>>, <<3, 2, 3>>, <<2, 30, 3>>}

InitRun ==
    /\ cfg = TrackConfig
    /\ sdf_map = [cell \in Cells(TrackConfig) |-> Zero]
    /\ freq_map = [cell \in Cells(TrackConfig) |-> 0]
    /\ hist = <<>>
    /\ nfuse = 0
    /\ last = NoCall
    /\ sensor = RunSensor
    /\ rt = <<>>
    /\ \E f \in [1 .. NumFrames -> RunScans],
          p \in {<<0, 0, 0>>, <<-1, 0, 0>>}, l \in Lapacks :
         slam = [pc |-> "start", t |-> 0, scans |-> f, pose0 |-> p,
                 _last_pose |-> Identity3, _est_poses |-> <<>>,
                 lapack |-> l, log |-> <<>>]
    /\ trk = NoFrame

NextRun ==
    RunStart \/ RunTrack \/ TrackIteration \/ RunFuse \/ RunEnd
SpecRun == InitRun /\ [][NextRun]_vars

----------------------------------------------------------------------------
(* Claims about the map *)

\* The last FuseSdf call's view of every cell.
LastObs == GridObs(cfg, sensor, last.pose, InvSE2(GetSE2FromPose(last.pose)))

\* Whether the last call accepted the cell: it completed, and the cell was
\* inside the frustum with its residual inside the truncation band.
LastAccepted(cell) ==
    /\ last.called
    /\ ~last.err
    /\ LastObs[cell].valid
    /\ DepthDiffValid(cfg, DepthDiff(last.scan, LastObs[cell]))

Mean(h) == IF h = <<>> THEN Zero ELSE Rat(SumSeq(h), Len(h))

\* C1: every cell's distance is the arithmetic mean of the residuals it was
\* accepted with and its confidence is their number; a FuseSdf call raises a
\* cell's confidence by exactly 1 if it accepts the cell and by 0 otherwise.
C1_RunningMean ==
    /\ \A cell \in Cells(cfg) :
          /\ freq_map[cell] = Len(hist[cell])
          /\ sdf_map[cell] = Mean(hist[cell])
    /\ last.called =>
          \A cell \in Cells(cfg) :
              freq_map[cell] = last.freq0[cell] + (IF LastAccepted(cell) THEN 1 ELSE 0)

\* A cell accepted twice with different residuals, while the last call
\* accepted one cell and not another.
C1_Witness ==
    /\ \E cell \in Cells(cfg) : Len(hist[cell]) = 2 /\ hist[cell][1] /= hist[cell][2]
    /\ \E a, b \in Cells(cfg) : LastAccepted(a) /\ ~LastAccepted(b)

\* C2: every cell's distance has magnitude at most the truncation distance.
C2_TruncationBound ==
    \A cell \in Cells(cfg) :
        Abs(sdf_map[cell][1]) <= Truncation(cfg) * sdf_map[cell][2]

\* The last call discarded a frustum cell whose residual was outside the
\* truncation band, and updated another cell to a non-zero distance.
C2_Witness ==
    /\ last.called /\ ~last.err
    /\ \E cell \in Cells(cfg) :
          LastObs[cell].valid /\ ~DepthDiffValid(cfg, DepthDiff(last.scan, LastObs[cell]))
    /\ \E cell \in Cells(cfg) : LastAccepted(cell) /\ sdf_map[cell][1] /= 0

\* The cell's sensor-frame coordinates: its world coordinate transformed
\* with the inverse of the pose.
SensorFramePt(pose, cell) ==
    GridLocalPt(InvSE2(GetSE2FromPoseColumn(pose)), WorldPt(cfg, cell))

\* Outside the scan frustum of the pose: behind the sensor, or with range or
\* bearing outside the sensor's limits.
OutsideFrustum(pose, cell) ==
    LET p == SensorFramePt(pose, cell)
        r == ISqrt(p[1] * p[1] + p[2] * p[2])
    IN  \/ p[1] <= 0
        \/ r < sensor.min_range
        \/ r > sensor.max_range
        \/ GridLocalAngle(p) < sensor.min_angle
        \/ GridLocalAngle(p) > sensor.max_angle

\* C3: a FuseSdf call leaves distance and confidence unchanged for every cell
\* whose sensor-frame coordinates lie outside the frustum.
C3_FrustumExclusive ==
    last.called =>
        \A cell \in Cells(cfg) :
            OutsideFrustum(last.pose, cell) =>
                /\ sdf_map[cell] = last.sdf0[cell]
                /\ freq_map[cell] = last.freq0[cell]

\* C9: every ray index FuseSdf reads for a frustum cell is an index of the
\* scan, 0 <= index <= len(scan) - 1.
C9_RayIndexInRange ==
    last.called => \A i \in last.read : 0 <= i /\ i <= Len(last.scan) - 1

\* C10: a cell converted to its world coordinate and back is the same cell.
C10_RoundTrip == rt.at = "cell" => rt.back = rt.cell

----------------------------------------------------------------------------
(* Claims about the tracker *)

\* Two pose matrices differ by less than the epsilons of slam.py 30-31: the
\* translations by less than kEpsOfTrans in norm, the headings (first
\* columns of the rotation blocks) by an angle whose tangent is below
\* kEpsOfYaw.
PoseDiffSmall(Q, P) ==
    LET cross == P[1][1] * Q[2][1] - P[2][1] * Q[1][1]
        dot   == P[1][1] * Q[1][1] + P[2][1] * Q[2][1]
    IN  /\ NormLess(Q[1][3] - P[1][3], Q[2][3] - P[2][3], Scale, kEpsOfTrans)
        /\ \/ cross = 0 /\ dot >= 0
           \/ dot > 0 /\ AbsLess(cross, dot, kEpsOfYaw)

\* C4: when a Track call left through the stop test and returned P, the
\* next call, on the same scan and grids with P as its prior, returns a
\* pose within the epsilons of P.
C4_ConvergenceIdempotence ==
    \A i \in 1 .. Len(slam.results) - 1 :
        (slam.results[i].exit = "converged"
           /\ slam.results[i + 1].prior = slam.results[i].ret)
        => PoseDiffSmall(slam.results[i + 1].ret, slam.results[i].ret)

\* A call that converged after moving the pose, followed by a second call.
C4_Witness ==
    /\ Len(slam.results) >= 2
    /\ slam.results[1].exit = "converged"
    /\ slam.results[1].updates > 0
    /\ slam.results[2].prior = slam.results[1].ret

\* What a Track frame has done so far stays within the cap, and a finished
\* call hands the caller the pose it held last.
TrackBounded ==
    trk.pc # "none" =>
        /\ trk.bodies <= kOptMaxIters
        /\ trk.updates <= kOptMaxIters
        /\ Len(trk.trail) = trk.updates + 1
        /\ trk.pc \in {"ret", "done"} =>
              /\ trk.exit \in {"converged", "cap", "no points"}
              /\ trk.last_pose = trk.trail[Len(trk.trail)]
        /\ trk.pc = "done" => slam._last_pose = trk.last_pose

\* Every step taken inside the loop either leaves it for the return or
\* raises it by one, staying below kOptMaxIters: the loop cannot go on.
TrackVariant ==
    trk.pc = "loop" =>
        \/ trk'.pc = "ret"
        \/ trk'.pc = "loop" /\ trk'.it = trk.it + 1 /\ trk'.it < kOptMaxIters

\* C5: Track always terminates: it runs at most kOptMaxIters loop bodies
\* and pose updates, every body ends the loop or brings the cap nearer,
\* and the caller receives the last computed pose, a matrix and nothing
\* else, whatever the exit (stop test, cap, or no contributing points).
C5_TrackTerminates == []TrackBounded /\ [][TrackVariant]_vars

\* A call that ran into the iteration cap and returned.
C5_Witness ==
    /\ trk.pc = "done"
    /\ trk.exit = "cap"
    /\ trk.updates = kOptMaxIters

\* The latest loop body of the frame found no contributing point.
LatestBodyNoPoints ==
    /\ trk.pc # "none"
    /\ trk.bodies > 0
    /\ Linearize(cfg, sdf_map, freq_map, trk.scan, trk.valid_idxs,
                 trk.at_start).opt_num = 0

\* C6: a loop body that finds opt_num = 0 ends the loop with no twist
\* solved in that body, and Track returns the pose held at the start of
\* that body (the prior when it is the first body).
C6_NoContributingPoints ==
    LatestBodyNoPoints =>
        /\ trk.pc \in {"ret", "done"}
        /\ trk.exit = "no points"
        /\ ~trk.solved
        /\ trk.last_pose = trk.at_start
        /\ trk.updates = trk.bodies - 1
        /\ trk.bodies = 1 => trk.last_pose = trk.prior
        /\ trk.pc = "done" =>
              slam.results[Len(slam.results)].ret = trk.at_start

\* A call that moved the pose, then found no contributing point in a
\* later body, and returned.
C6_Witness ==
    /\ LatestBodyNoPoints
    /\ trk.pc = "done"
    /\ trk.bodies >= 2
    /\ trk.last_pose # trk.prior

\* C7: a loop body whose H is singular uses the zero twist and leaves the
\* pose as it was at the start of the body.
C7_SingularZeroTwist ==
    (trk.pc # "none" /\ trk.bodies > 0 /\ trk.solved /\ trk.singular) =>
        /\ trk.xi = ZeroTwist
        /\ trk.last_pose = trk.at_start

----------------------------------------------------------------------------
(* Claims about the session loop *)

\* C8: the first frame is fused before any Track call; the log of Run is
\* fuse(0), track(1), fuse(1), track(2), fuse(2), ...; every Track call
\* starts from the grids the fusion before it left and they stay as they
\* are while it runs; every fusion after the first uses the pose its Track
\* call returned, and that pose is the prior of the next Track call.
C8_SequentialPipeline ==
    /\ trk.pc # "none" => nfuse >= 1
    /\ nfuse >= 1 => slam.log[1].op = "fuse" /\ slam.log[1].frame = 0
    /\ \A i \in 1 .. Len(slam.log) :
          IF i % 2 = 1
          THEN /\ slam.log[i].op = "fuse"
               /\ slam.log[i].frame = (i - 1) \div 2
               /\ i > 1 => slam.log[i].pose = slam.log[i - 1].pose
          ELSE /\ slam.log[i].op = "track"
               /\ slam.log[i].frame = i \div 2
               /\ slam.log[i].sdf = slam.log[i - 1].sdf
               /\ slam.log[i].freq = slam.log[i - 1].freq
               /\ i > 2 => slam.log[i].prior = slam.log[i - 2].pose
    /\ trk.pc \in {"loop", "ret"} =>
          /\ sdf_map = trk.sdf0 /\ freq_map = trk.freq0
          /\ trk.sdf0 = slam.log[Len(slam.log)].sdf
          /\ trk.freq0 = slam.log[Len(slam.log)].freq
          /\ Len(slam.log) > 1 =>
                trk.prior = slam.log[Len(slam.log)].pose

\* Run at its end after two tracked frames, one of which moved the pose.
C8_Witness ==
    /\ slam.pc = "end"
    /\ Len(slam.log) >= 5
    /\ \E i \in 1 .. Len(slam.log) :
          slam.log[i].op = "track" /\ slam.log[i].pose # slam.log[i].prior

====
